---------------------------- MODULE Spec2Model ----------------------------
(***************************************************************************)
(* HetioNet loader and queries (src/main.py, src/db/graph.py,              *)
(* src/db/document.py).                                                    *)
(*                                                                         *)
(* create_db reads a node file and an edge file, mirrors every node into   *)
(* the document store, merges every node into the graph store and then     *)
(* merges the edges, grouped by metaedge, in batches of batch_size rows.   *)
(* query1 and query2 read the graph store.                                 *)
(*                                                                         *)
(* Text that the code inspects character by character (a node's kind, an   *)
(* edge's metaedge) is a sequence of one-character strings.  A node id     *)
(* "<Kind>::<n>" is the pair <<Kind, n>>; the code only compares ids.      *)
(***************************************************************************)
EXTENDS Integers, Sequences, FiniteSets

VARIABLES
    nodesFile,    \* rows of the node file: [id, name, kind]
    edgesFile,    \* rows of the edge file: [source, target, metaedge]
    mongo,        \* document store, collection nodes: _id -> [name, kind]
    gnodes,       \* graph store nodes, in creation order: [id, name, kind, labels]
    grels,        \* graph store relations: <<source, type, target>> -> how many
    pc,           \* where create_db is: idle, mongo, neo4j, edges, done, failed
    i,            \* index of the node row the current node loop is at
    edge_groups,  \* the dict edge_groups, in insertion order
    g,            \* index of the group the edge loop is at
    b,            \* offset i of the batch loop inside the current group
    batches,      \* the batch statements this run has sent to the graph store,
                  \* each with the group offset it starts at and whether it ran
    runs,         \* number of create_db calls started
    prev,         \* the stores as they were when the current run started
    ret,          \* what the most recent call returned to its caller
    cuts          \* for each create_db call that was interrupted, in order,
                  \* the number of statements the stores had run for it

vars == <<nodesFile, edgesFile, mongo, gnodes, grels, pc, i, edge_groups, g, b,
          batches, runs, prev, ret, cuts>>

---------------------------------------------------------------------------
(* Characters *)

Letters ==
    {"A","B","C","D","E","F","G","H","I","J","K","L","M","N","O","P","Q","R",
     "S","T","U","V","W","X","Y","Z",
     "a","b","c","d","e","f","g","h","i","j","k","l","m","n","o","p","q","r",
     "s","t","u","v","w","x","y","z"}

Digits == {"0","1","2","3","4","5","6","7","8","9"}

WordChars == Letters \cup Digits \cup {"_"}

\* re.sub(r'[^A-Za-z0-9_]', '', metaedge)
KeepWordChar(c) == c \in WordChars

sanitize_metaedge(metaedge) == SelectSeq(metaedge, KeepWordChar)

\* re.match(r"^[A-Za-z][A-Za-z0-9_]*$", kind)
ValidKind(kind) ==
    /\ Len(kind) > 0
    /\ kind[1] \in Letters
    /\ \A k \in 1..Len(kind) : kind[k] \in WordChars

\* The graph store parses the statement text the code builds by "..." + kind
\* and "..." + sanitized_metaedge + "...": the concatenated text is a label or
\* a relation type only if it is an unescaped symbolic name; any other text
\* is a syntax error, which session.run raises.
CypherName(s) ==
    /\ Len(s) > 0
    /\ s[1] \in Letters \cup {"_"}
    /\ \A k \in 1..Len(s) : s[k] \in WordChars

\* Labels and relation types the queries name.
Disease  == <<"D","i","s","e","a","s","e">>
Compound == <<"C","o","m","p","o","u","n","d">>
Gene     == <<"G","e","n","e">>
Anatomy  == <<"A","n","a","t","o","m","y">>
CtD == <<"C","t","D">>
CpD == <<"C","p","D">>
DdG == <<"D","d","G">>
DlA == <<"D","l","A">>
AuG == <<"A","u","G">>
AdG == <<"A","d","G">>
CuG == <<"C","u","G">>
CdG == <<"C","d","G">>

---------------------------------------------------------------------------
(* Store operations *)

\* DocumentDB.insert_node: update_one({_id}, {$set: node_doc}, upsert=True)
insert_node(db, node_doc) ==
    [x \in DOMAIN db \cup {node_doc.id} |->
        IF x = node_doc.id
        THEN [name |-> node_doc.name, kind |-> node_doc.kind]
        ELSE db[x]]

\* (n { id: $id }): the nodes whose id property is the given id.  The
\* store numbers its nodes in creation order; gnodes[n] is node n.
NodesWithId(nodes, id) == { n \in DOMAIN nodes : nodes[n].id = id }

\* CREATE (n { id: $id }) in place of MERGE: a new node each time the
\* statement runs, whether or not a node has the id.
MergeNode_Create(nodes, id, name, kind) ==
    Append(nodes, [id |-> id, name |-> name, kind |-> kind, labels |-> {kind}])

\* MERGE (n { id: $id }) SET n.name = $name, n.kind = $kind, n:<kind>
\* binds n to every node with that id, or creates one when there is none,
\* then overwrites name and kind and adds the label (a label once set is
\* never removed).
MergeNode(nodes, id, name, kind) ==
    LET found == NodesWithId(nodes, id)
    IN  IF found = {}
        THEN Append(nodes, [id |-> id, name |-> name, kind |-> kind,
                            labels |-> {kind}])
        ELSE [n \in DOMAIN nodes |->
                IF n \in found
                THEN [id |-> id, name |-> name, kind |-> kind,
                      labels |-> nodes[n].labels \cup {kind}]
                ELSE nodes[n]]

\* UNWIND $batch as row MATCH (s {id: row.source}) MATCH (t {id: row.target}):
\* the (s, t) bindings of the rows, as the relations the MERGE clause is
\* asked for.  A row whose source or target matches no node binds nothing.
BoundRows(nodes, type, batch) ==
    UNION { { <<s, type, t>> : s \in NodesWithId(nodes, batch[k].source),
                               t \in NodesWithId(nodes, batch[k].target) } :
            k \in 1..Len(batch) }

\* CREATE in place of MERGE: one more relation each time, existing or not.
MergeRels_Create(rels, bound) ==
    [r \in DOMAIN rels \cup bound |->
        (IF r \in DOMAIN rels THEN rels[r] ELSE 0) + (IF r \in bound THEN 1 ELSE 0)]

\* MERGE (s)-[r:<type>]->(t) for each binding: the relation is created
\* unless one of that type already runs from s to t.  rels[r] is the number
\* of relations from node r[1] to node r[3] of type r[2].
MergeRels(rels, bound) ==
    [r \in DOMAIN rels \cup bound |-> IF r \in DOMAIN rels THEN rels[r] ELSE 1]

\* MERGE (s {id: row.source})-[r:<type>]->(t {id: row.target}) with no MATCH
\* before it: an endpoint that matches no node is created.
MergeBatch_MergesPattern(store, type, batch) ==
    LET ends == [k \in 1..(2 * Len(batch)) |->
                    IF k % 2 = 1 THEN batch[(k + 1) \div 2].source
                    ELSE batch[k \div 2].target]
        Missing(k) == /\ NodesWithId(store.gnodes, ends[k]) = {}
                      /\ \A j \in 1..(k - 1) : ends[j] # ends[k]
        new == SelectSeq([k \in DOMAIN ends |-> k], Missing)
        nodes == store.gnodes \o
                 [k \in 1..Len(new) |->
                    [id |-> ends[new[k]], name |-> "", kind |-> <<>>, labels |-> {}]]
    IN  [gnodes |-> nodes,
         grels |-> MergeRels(store.grels, BoundRows(nodes, type, batch))]

\* The batch statement of create_db on a store: it creates no node.
MergeBatch(store, type, batch) ==
    [gnodes |-> store.gnodes,
     grels |-> MergeRels(store.grels, BoundRows(store.gnodes, type, batch))]

---------------------------------------------------------------------------
(* Bounds and inputs *)

\* batch_size = 1000 in create_db
batch_size == 1000

MaxRuns == 2        \* create_db calls in one behaviour
MaxNodeRows == 2    \* rows of an enumerated node file
MaxEdgeRows == 2    \* rows of an enumerated edge file
BigNodeCount == 51  \* nodes of the generated node file
BigEdgeCount == 2500 \* rows of the largest generated edge file

MaxQueryEdges == 6  \* rows of an edge file of the query inputs

MaxInterrupts == 1  \* create_db calls interrupted in one behaviour
FewNodeCount == 3   \* nodes of the generated node file of the recovery inputs

SeqsUpTo(S, n) == UNION { [1..k -> S] : k \in 0..n }

NodeRow(id, name, kind) == [id |-> id, name |-> name, kind |-> kind]

EdgeRow(source, metaedge, target) ==
    [source |-> source, target |-> target, metaedge |-> metaedge]

\* Node ids "<Kind>::<n>".
D1 == <<"Disease", 1>>
D0 == <<"Disease", 0>>      \* an id no file holds
A1 == <<"Anatomy", 1>>
A2 == <<"Anatomy", 2>>
G1 == <<"Gene", 1>>
G2 == <<"Gene", 2>>
G3 == <<"Gene", 3>>         \* an id no enumerated node file holds
C1 == <<"Compound", 1>>
C2 == <<"Compound", 2>>

\* Loader inputs: node rows with a repeated id and with a kind that is no
\* label; edge rows with a missing endpoint, with a metaedge that needs
\* sanitizing, and with one that sanitizes to no relation type.
LoadNodeRows ==
    { NodeRow(D1, "d", Disease),
      NodeRow(G2, "g", Gene),
      NodeRow(D1, "e", Gene),
      NodeRow(G2, "g", <<"1","b","a","d">>) }

LoadEdgeRows ==
    { EdgeRow(D1, DdG, G2),
      EdgeRow(D1, DdG, G3),
      EdgeRow(G2, <<"D","-","d","G">>, D1),
      EdgeRow(D1, <<"1","-">>, G2) }

\* Generated inputs that span several batches: BigNodeCount genes and the
\* first n pairs of them as edges of one metaedge.
BigNodes == [k \in 1..BigNodeCount |-> NodeRow(<<"Gene", k>>, "g", Gene)]

BigEdges(n) ==
    [k \in 1..n |->
        EdgeRow(<<"Gene", ((k - 1) \div BigNodeCount) + 1>>,
                <<"G","i","G">>,
                <<"Gene", ((k - 1) % BigNodeCount) + 1>>)]

LoadFiles ==
    { [nodes |-> ns, edges |-> es] :
        ns \in SeqsUpTo(LoadNodeRows, MaxNodeRows),
        es \in SeqsUpTo(LoadEdgeRows, MaxEdgeRows) }
    \cup
    { [nodes |-> BigNodes, edges |-> BigEdges(n)] :
        n \in {batch_size - 1, batch_size, batch_size + 1, BigEdgeCount} }

\* Recovery inputs: the enumerated files, and FewNodeCount genes with edges
\* of one metaedge that fill two batches and start a third (the rows go round
\* the pairs of genes, so a pair comes up in more than one batch).
FewNodes == [k \in 1..FewNodeCount |-> NodeRow(<<"Gene", k>>, "g", Gene)]

FewEdges(n) ==
    [k \in 1..n |->
        EdgeRow(<<"Gene", (((k - 1) \div FewNodeCount) % FewNodeCount) + 1>>,
                <<"G","i","G">>,
                <<"Gene", ((k - 1) % FewNodeCount) + 1>>)]

RecoveryFiles ==
    { [nodes |-> ns, edges |-> es] :
        ns \in SeqsUpTo(LoadNodeRows, MaxNodeRows),
        es \in SeqsUpTo(LoadEdgeRows, MaxEdgeRows) }
    \cup
    { [nodes |-> FewNodes, edges |-> FewEdges(2 * batch_size + 1)] }

\* Query inputs: one disease, two locations, two genes, two compounds, and
\* up to MaxQueryEdges of the relations below, in this order.  Two of the
\* regulation rows run from the gene (to a location, to a compound).
QueryNodes ==
    << NodeRow(D1, "d1", Disease),
       NodeRow(A1, "a1", Anatomy), NodeRow(A2, "a2", Anatomy),
       NodeRow(G1, "g1", Gene), NodeRow(G2, "g2", Gene),
       NodeRow(C1, "c1", Compound), NodeRow(C2, "c2", Compound) >>

QueryEdgeRows ==
    << EdgeRow(D1, DlA, A1), EdgeRow(D1, DlA, A2),
       EdgeRow(A1, AuG, G1), EdgeRow(A2, AdG, G1),
       EdgeRow(A1, AuG, G2), EdgeRow(G2, AdG, A2),
       EdgeRow(C1, CdG, G1), EdgeRow(C1, CuG, G1), EdgeRow(C1, CdG, G2),
       EdgeRow(C2, CdG, G1), EdgeRow(C2, CuG, G2),
       EdgeRow(G1, CuG, C2),
       EdgeRow(C1, CtD, D1), EdgeRow(C2, CpD, D1), EdgeRow(G1, DdG, D1) >>

QueryFiles ==
    { [nodes |-> QueryNodes,
       edges |-> LET Chosen(e) == e \in S IN SelectSeq(QueryEdgeRows, Chosen)] :
        S \in { S \in SUBSET { QueryEdgeRows[k] : k \in DOMAIN QueryEdgeRows } :
                  Cardinality(S) <= MaxQueryEdges } }

\* The disease ids the callers ask about.
QueryIds == {D1, D0, G2}

---------------------------------------------------------------------------
(* create_db *)

Min(x, y) == IF x < y THEN x ELSE y

\* edge_groups.setdefault(key, []).append({source, target}) for every edge:
\* one group per distinct metaedge text, in order of first appearance, each
\* holding its edges in file order.
GroupEdges(edges) ==
    LET First(k) == \A j \in 1..(k - 1) : edges[j].metaedge # edges[k].metaedge
        firsts == SelectSeq([k \in 1..Len(edges) |-> k], First)
        RowsOf(m) ==
            LET Same(e) == e.metaedge = m
                sel == SelectSeq(edges, Same)
            IN  [k \in 1..Len(sel) |->
                    [source |-> sel[k].source, target |-> sel[k].target]]
    IN  [n \in 1..Len(firsts) |->
            [metaedge |-> edges[firsts[n]].metaedge,
             edge_list |-> RowsOf(edges[firsts[n]].metaedge)]]

\* edge_list[i:i+batch_size-1]: a slice one row short.
BatchSlice_Short(edge_list, off) ==
    SubSeq(edge_list, off + 1, Min(off + batch_size - 1, Len(edge_list)))

\* batch = edge_list[i:i+batch_size]
BatchSlice(edge_list, off) ==
    SubSeq(edge_list, off + 1, Min(off + batch_size, Len(edge_list)))

Stores == [mongo |-> mongo, gnodes |-> gnodes, grels |-> grels]

\* No create_db call is in progress.  Each command of main is one call that
\* runs to its end; the queries are taken between loads, so a query reads a
\* graph that a whole load, or a load that stopped at a rejected statement,
\* has left.
Idle == pc \in {"idle", "done", "failed", "interrupted"}

\* A caller starts create_db on the node file and the edge file.
CreateDb ==
    /\ Idle
    /\ runs < MaxRuns
    /\ pc' = "mongo"
    /\ i' = 1
    /\ runs' = runs + 1
    /\ edge_groups' = <<>>
    /\ g' = 1
    /\ b' = 0
    /\ batches' = <<>>
    /\ prev' = Stores
    /\ ret' = [op |-> "create_db"]
    /\ UNCHANGED <<cuts, nodesFile, edgesFile, mongo, gnodes, grels>>

\* for i, row in enumerate(nodes): doc_db.insert_node(node_doc)
InsertMongo ==
    /\ pc = "mongo"
    /\ i <= Len(nodesFile)
    /\ mongo' = insert_node(mongo, nodesFile[i])
    /\ i' = i + 1
    /\ UNCHANGED <<cuts, nodesFile, edgesFile, gnodes, grels, pc, edge_groups, g, b,
                   batches, runs, prev, ret>>

MongoDone ==
    /\ pc = "mongo"
    /\ i > Len(nodesFile)
    /\ pc' = "neo4j"
    /\ i' = 1
    /\ UNCHANGED <<cuts, nodesFile, edgesFile, mongo, gnodes, grels, edge_groups, g, b,
                   batches, runs, prev, ret>>

\* for row in nodes: session.run("MERGE (n { id: $id }) SET ..., n:" + kind)
InsertNeo4j ==
    /\ pc = "neo4j"
    /\ i <= Len(nodesFile)
    /\ CypherName(nodesFile[i].kind)
    /\ gnodes' = MergeNode(gnodes, nodesFile[i].id, nodesFile[i].name,
                           nodesFile[i].kind)
    /\ i' = i + 1
    /\ UNCHANGED <<cuts, nodesFile, edgesFile, mongo, grels, pc, edge_groups, g, b,
                   batches, runs, prev, ret>>

\* The statement built from a kind that is no label is rejected: session.run
\* raises, nothing in create_db catches it, and the call ends there.
InsertNeo4jFails ==
    /\ pc = "neo4j"
    /\ i <= Len(nodesFile)
    /\ ~CypherName(nodesFile[i].kind)
    /\ pc' = "failed"
    /\ UNCHANGED <<cuts, nodesFile, edgesFile, mongo, gnodes, grels, i, edge_groups, g,
                   b, batches, runs, prev, ret>>

\* The node loop is over: read the edge file and group it by metaedge.
Neo4jDone ==
    /\ pc = "neo4j"
    /\ i > Len(nodesFile)
    /\ edge_groups' = GroupEdges(edgesFile)
    /\ pc' = "edges"
    /\ g' = 1
    /\ b' = 0
    /\ UNCHANGED <<cuts, nodesFile, edgesFile, mongo, gnodes, grels, i, batches, runs,
                   prev, ret>>

\* for i in range(0, len(edge_list), batch_size): session.run(query, batch=batch)
RunBatch ==
    /\ pc = "edges"
    /\ g <= Len(edge_groups)
    /\ b < Len(edge_groups[g].edge_list)
    /\ LET type == sanitize_metaedge(edge_groups[g].metaedge)
           batch == BatchSlice(edge_groups[g].edge_list, b)
       IN  /\ CypherName(type)
           /\ LET after == MergeBatch([gnodes |-> gnodes, grels |-> grels],
                                       type, batch)
              IN  gnodes' = after.gnodes /\ grels' = after.grels
           /\ batches' = Append(batches, [type |-> type, off |-> b,
                                            batch |-> batch, ok |-> TRUE])
    /\ b' = b + batch_size
    /\ UNCHANGED <<cuts, nodesFile, edgesFile, mongo, pc, i, edge_groups, g,
                   runs, prev, ret>>

\* The statement built from a sanitized metaedge that is no relation type is
\* rejected: session.run raises and the call ends there.
RunBatchFails ==
    /\ pc = "edges"
    /\ g <= Len(edge_groups)
    /\ b < Len(edge_groups[g].edge_list)
    /\ LET type == sanitize_metaedge(edge_groups[g].metaedge)
           batch == BatchSlice(edge_groups[g].edge_list, b)
       IN  /\ ~CypherName(type)
           /\ batches' = Append(batches, [type |-> type, off |-> b,
                                            batch |-> batch, ok |-> FALSE])
    /\ pc' = "failed"
    /\ UNCHANGED <<cuts, nodesFile, edgesFile, mongo, gnodes, grels, i, edge_groups, g,
                   b, runs, prev, ret>>

\* The batch loop of one group is over: next item of edge_groups.
NextGroup ==
    /\ pc = "edges"
    /\ g <= Len(edge_groups)
    /\ b >= Len(edge_groups[g].edge_list)
    /\ g' = g + 1
    /\ b' = 0
    /\ UNCHANGED <<cuts, nodesFile, edgesFile, mongo, gnodes, grels, pc, i, edge_groups,
                   batches, runs, prev, ret>>

\* The statements of create_db that the stores have run for the call in
\* progress: one per node row in each node loop, one per batch.
StatementsRun ==
    CASE pc = "mongo" -> i - 1
      [] pc = "neo4j" -> Len(nodesFile) + (i - 1)
      [] pc = "edges" -> 2 * Len(nodesFile) + Len(batches)

\* The call is cut off between two statements (the process is killed, the
\* caller abandons the call, a connection drops).  Every statement is its
\* own auto-commit transaction and create_db has no handler that undoes
\* one, so the stores keep what the statements run so far have written.
Interrupt ==
    /\ pc \in {"mongo", "neo4j", "edges"}
    /\ Len(cuts) < MaxInterrupts
    /\ cuts' = Append(cuts, StatementsRun)
    /\ pc' = "interrupted"
    /\ UNCHANGED <<nodesFile, edgesFile, mongo, gnodes, grels, i, edge_groups, g,
                   b, batches, runs, prev, ret>>

\* graph_db.close(); doc_db.close(); create_db returns.
Finish ==
    /\ pc = "edges"
    /\ g > Len(edge_groups)
    /\ pc' = "done"
    /\ UNCHANGED <<cuts, nodesFile, edgesFile, mongo, gnodes, grels, i, edge_groups, g,
                   b, batches, runs, prev, ret>>

---------------------------------------------------------------------------
(* Graph patterns *)

\* (n:<label> ...): the nodes that carry the label
Labelled(label) == { n \in DOMAIN gnodes : label \in gnodes[n].labels }

\* (n {id: $id}) in the current store
WithId(id) == NodesWithId(gnodes, id)

\* (s)-[:<type>]->(t)
Rel(s, type, t) == <<s, type, t>> \in DOMAIN grels

\* (x)-[:<type>]-(y), either orientation
RelEither(x, type, y) == Rel(x, type, y) \/ Rel(y, type, x)

NamesOf(ns) == { gnodes[n].name : n \in ns }

---------------------------------------------------------------------------
(* GraphDB.query1 *)

\* MATCH (d:Disease {id: $disease_id})
MatchDisease(disease_id) == Labelled(Disease) \cap WithId(disease_id)

\* RETURN count(d) > 0 as exists
DiseaseExists(disease_id) == MatchDisease(disease_id) # {}

\* OPTIONAL MATCH (d)<-[r:CtD|CpD]-(c:Compound)
Query1Drugs(d) ==
    { c \in Labelled(Compound) : Rel(c, CtD, d) \/ Rel(c, CpD, d) }

\* OPTIONAL MATCH (d)-[r2:DdG]-(g:Gene)
Query1Genes(d) == { x \in Labelled(Gene) : RelEither(d, DdG, x) }

\* OPTIONAL MATCH (d)-[r3:DlA]->(l:Anatomy)
Query1Locations(d) == { l \in Labelled(Anatomy) : Rel(d, DlA, l) }

\* MATCH in place of OPTIONAL MATCH: a disease that lacks a compound, a gene
\* or a location yields no record at all.
Query1Records_RequiredMatch(disease_id) ==
    { [disease_name |-> gnodes[d].name,
       drug_names |-> NamesOf(Query1Drugs(d)),
       gene_names |-> NamesOf(Query1Genes(d)),
       locations |-> NamesOf(Query1Locations(d))] :
      d \in { d \in MatchDisease(disease_id) :
                /\ Query1Drugs(d) # {}
                /\ Query1Genes(d) # {}
                /\ Query1Locations(d) # {} } }

\* RETURN d.name AS disease_name, collect(DISTINCT c.name) AS drug_names, ...
Query1Records(disease_id) ==
    { [disease_name |-> gnodes[d].name,
       drug_names |-> NamesOf(Query1Drugs(d)),
       gene_names |-> NamesOf(Query1Genes(d)),
       locations |-> NamesOf(Query1Locations(d))] : d \in MatchDisease(disease_id) }

\* The value GraphDB.query1 returns: None when the verification finds no
\* disease or the main query yields no record, else the aggregated record
\* (result.single()) as a dict.
query1(disease_id) ==
    IF ~DiseaseExists(disease_id) \/ Query1Records(disease_id) = {}
    THEN [op |-> "query1", arg |-> disease_id, status |-> "None"]
    ELSE LET record == CHOOSE r \in Query1Records(disease_id) : TRUE
         IN  [op |-> "query1", arg |-> disease_id, status |-> "ok",
              disease_name |-> record.disease_name,
              drug_names |-> record.drug_names,
              gene_names |-> record.gene_names,
              locations |-> record.locations]

\* main.query1 / the query1 command: one call of GraphDB.query1.
Query1(disease_id) ==
    /\ Idle
    /\ ret' = query1(disease_id)
    /\ UNCHANGED <<cuts, nodesFile, edgesFile, mongo, gnodes, grels, pc, i, edge_groups,
                   g, b, batches, runs, prev>>

---------------------------------------------------------------------------
(* GraphDB.query2 *)

\* The WHERE clause testing that the two directions are equal.
Opposite_Same(t1, t2) == (t1 = AuG /\ t2 = CuG) \/ (t1 = AdG /\ t2 = CdG)

\* (type(r1) = 'AuG' AND type(r2) = 'CdG') OR (type(r1) = 'AdG' AND type(r2) = 'CuG')
Opposite(t1, t2) == (t1 = AuG /\ t2 = CdG) \/ (t1 = AdG /\ t2 = CuG)

\* The WHERE clause without AND NOT (c)-[:CtD]->(d).
Query2Matches_NoExclusion(disease_id) ==
    { m \in [d : MatchDisease(disease_id),
             loc : Labelled(Anatomy),
             r1 : {AuG, AdG},
             gene : Labelled(Gene),
             c : Labelled(Compound),
             r2 : {CuG, CdG}] :
        /\ Rel(m.d, DlA, m.loc)
        /\ RelEither(m.loc, m.r1, m.gene)
        /\ Rel(m.c, m.r2, m.gene)
        /\ Opposite(m.r1, m.r2) }

\* MATCH (d:Disease {id})-[:DlA]->(loc:Anatomy)
\* MATCH (loc)-[r1:AuG|AdG]-(g:Gene)
\* MATCH (c:Compound)-[r2:CuG|CdG]->(g)
\* WHERE (...) AND NOT (c)-[:CtD]->(d)
\* The rows that pass the WHERE clause.
Query2Matches(disease_id) ==
    { m \in [d : MatchDisease(disease_id),
             loc : Labelled(Anatomy),
             r1 : {AuG, AdG},
             gene : Labelled(Gene),
             c : Labelled(Compound),
             r2 : {CuG, CdG}] :
        /\ Rel(m.d, DlA, m.loc)
        /\ RelEither(m.loc, m.r1, m.gene)
        /\ Rel(m.c, m.r2, m.gene)
        /\ Opposite(m.r1, m.r2)
        /\ ~Rel(m.c, CtD, m.d) }

\* WITH DISTINCT c, count(DISTINCT g) as gene_count
\* RETURN c.name as drug_name, gene_count
Query2Grouped(disease_id) ==
    LET ms == Query2Matches(disease_id)
    IN  { [c |-> c, drug_name |-> gnodes[c].name,
           gene_count |-> Cardinality({ m.gene : m \in { x \in ms : x.c = c } })] :
          c \in { m.c : m \in ms } }

\* No ORDER BY clause: the records in any order.
OrderByGeneCountDesc_Unordered(records) ==
    { s \in [1..Cardinality(records) -> records] :
        \A x \in records : \E k \in DOMAIN s : s[k] = x }

\* ORDER BY gene_count DESC: the records in an order of non-increasing
\* gene_count.  The statement names no other sort key, so the store may
\* return records of equal gene_count in any order.
OrderByGeneCountDesc(records) ==
    { s \in [1..Cardinality(records) -> records] :
        /\ \A x \in records : \E k \in DOMAIN s : s[k] = x
        /\ \A j, k \in DOMAIN s : j < k => s[j].gene_count >= s[k].gene_count }

\* MATCH (d:Disease {id: $disease_id}) RETURN d.name as name, .single()
Query2Disease(disease_id) == MatchDisease(disease_id) # {}

\* GraphDB.query2 when the disease record is None: disease['name'] raises
\* TypeError, which neither GraphDB.query2 nor main.query2 catches.
Query2Raises(disease_id) ==
    /\ Idle
    /\ ~Query2Disease(disease_id)
    /\ ret' = [op |-> "query2", arg |-> disease_id, status |-> "TypeError"]
    /\ UNCHANGED <<cuts, nodesFile, edgesFile, mongo, gnodes, grels, pc, i, edge_groups,
                   g, b, batches, runs, prev>>

\* GraphDB.query2 when the disease exists: the list of drug names, in the
\* order the store returned the records.
Query2(disease_id) ==
    /\ Idle
    /\ Query2Disease(disease_id)
    /\ \E result \in OrderByGeneCountDesc(Query2Grouped(disease_id)) :
          ret' = [op |-> "query2", arg |-> disease_id, status |-> "ok",
                  records |-> result,
                  value |-> [k \in DOMAIN result |-> result[k].drug_name]]
    /\ UNCHANGED <<cuts, nodesFile, edgesFile, mongo, gnodes, grels, pc, i, edge_groups,
                   g, b, batches, runs, prev>>

---------------------------------------------------------------------------
(* Specifications *)

Start(files) ==
    /\ nodesFile = files.nodes
    /\ edgesFile = files.edges
    /\ mongo = <<>>
    /\ gnodes = <<>>
    /\ grels = <<>>
    /\ pc = "idle"
    /\ i = 1
    /\ edge_groups = <<>>
    /\ g = 1
    /\ b = 0
    /\ batches = <<>>
    /\ runs = 0
    /\ prev = [mongo |-> <<>>, gnodes |-> <<>>, grels |-> <<>>]
    /\ ret = [op |-> "none"]
    /\ cuts = <<>>

Load ==
    \/ InsertMongo
    \/ MongoDone
    \/ InsertNeo4j
    \/ Neo4jDone
    \/ RunBatch
    \/ NextGroup
    \/ Finish

Query ==
    \/ \E d \in QueryIds : Query1(d)
    \/ \E d \in QueryIds : Query2(d)
    \/ \E d \in QueryIds : Query2Raises(d)

\* The loader on any input, run up to MaxRuns times on the same files, with
\* queries between the runs.
Init == \E files \in LoadFiles : Start(files)

Next ==
    \/ CreateDb
    \/ Load
    \/ InsertNeo4jFails
    \/ RunBatchFails
    \/ Query

Spec == Init /\ [][Next]_vars

\* One load of a well-formed biomedical graph, then queries.
InitQ == \E files \in QueryFiles : Start(files)

LoadOnce == runs = 0 /\ CreateDb

NextQ ==
    \/ LoadOnce
    \/ Load
    \/ Query

SpecQ == InitQ /\ [][NextQ]_vars

\* The loader run up to MaxRuns times on the same files, up to MaxInterrupts
\* of the runs cut off at any statement boundary.
InitR == \E files \in RecoveryFiles : Start(files)

NextR ==
    \/ CreateDb
    \/ Load
    \/ InsertNeo4jFails
    \/ RunBatchFails
    \/ Interrupt

SpecR == InitR /\ [][NextR]_vars

---------------------------------------------------------------------------
(* Properties of create_db *)

LoadEnded == runs >= 1 /\ pc \in {"done", "failed"}

\* Some relation of the type runs from a node with id source to a node with
\* id target.
RelationBetween(source, type, target) ==
    \E s \in WithId(source), t \in WithId(target) : Rel(s, type, t)

FileIds == { nodesFile[k].id : k \in DOMAIN nodesFile }

\* C1: a second run of create_db on the same files ends with the document
\* store, the graph nodes and the graph relations (each with its number of
\* copies) exactly as the first run left them.
C1_LoadIdempotent == (LoadEnded /\ runs >= 2) => Stores = prev

\* A second run has completed on files that put nodes and relations in the
\* graph store.
C1_Witness ==
    /\ runs = 2
    /\ pc = "done"
    /\ Len(gnodes) >= 2
    /\ DOMAIN grels # {}
    /\ DOMAIN mongo # {}

\* The edge file holds rows of one metaedge only and every endpoint is a
\* node of the graph store.
OneTypeAllEndpoints ==
    /\ \A k \in DOMAIN edgesFile : edgesFile[k].metaedge = edgesFile[1].metaedge
    /\ \A k \in DOMAIN edgesFile :
          WithId(edgesFile[k].source) # {} /\ WithId(edgesFile[k].target) # {}

\* The batches that hold row j of the edge file (the file has one group, so
\* row j of the file is row j of the group).
BatchesHolding(j) ==
    { k \in DOMAIN batches :
        /\ batches[k].off < j
        /\ j <= batches[k].off + Len(batches[k].batch)
        /\ batches[k].batch[j - batches[k].off] =
              [source |-> edgesFile[j].source, target |-> edgesFile[j].target] }

\* C2: when create_db has loaded n edges of one metaedge whose endpoints all
\* exist, it has sent exactly ceil(n / batch_size) batches, each of
\* batch_size rows except a last one holding the rest, every edge is in
\* exactly one batch, and every edge's relation is in the graph store.
C2_BatchingComplete ==
    (pc = "done" /\ OneTypeAllEndpoints) =>
        LET n == Len(edgesFile)
        IN  /\ Len(batches) = (n + batch_size - 1) \div batch_size
            /\ \A k \in DOMAIN batches :
                  /\ batches[k].ok
                  /\ Len(batches[k].batch) =
                        IF k < Len(batches) THEN batch_size
                        ELSE n - (Len(batches) - 1) * batch_size
            /\ \A j \in 1..n : Cardinality(BatchesHolding(j)) = 1
            /\ \A j \in 1..n :
                  RelationBetween(edgesFile[j].source,
                                  sanitize_metaedge(edgesFile[j].metaedge),
                                  edgesFile[j].target)

\* A load of more than two full batches of one metaedge has ended with three
\* batches, the last one smaller, and as many distinct relations as edges.
C2_Witness ==
    /\ pc = "done"
    /\ OneTypeAllEndpoints
    /\ Len(edgesFile) > 2 * batch_size
    /\ Len(batches) = 3
    /\ Len(batches[1].batch) = batch_size
    /\ Len(batches[2].batch) = batch_size
    /\ Len(batches[3].batch) = Len(edgesFile) - 2 * batch_size
    /\ Len(batches[3].batch) < batch_size
    /\ Cardinality(DOMAIN grels) = Len(edgesFile)

\* C7 (as claimed): a node row whose kind is outside the grammar costs only
\* that node: once the load has ended, every node row with a valid kind is
\* in the graph store and so is every edge between such nodes.  (Only files
\* whose metaedges all sanitize to relation types are considered, so that
\* nothing but a node kind can stop the load.)
C7_InvalidKindSkipsOnlyThatNode ==
    (/\ LoadEnded
     /\ \A k \in DOMAIN edgesFile :
           CypherName(sanitize_metaedge(edgesFile[k].metaedge))) =>
        LET valid == { nodesFile[k].id : k \in { k \in DOMAIN nodesFile :
                                                  ValidKind(nodesFile[k].kind) } }
        IN  /\ \A id \in valid : WithId(id) # {}
            /\ \A k \in DOMAIN edgesFile :
                  (edgesFile[k].source \in valid /\ edgesFile[k].target \in valid)
                  => RelationBetween(edgesFile[k].source,
                                     sanitize_metaedge(edgesFile[k].metaedge),
                                     edgesFile[k].target)

\* C9: at every moment each relation joins two nodes of the graph store,
\* the graph store holds no node but those of node rows (an edge row never
\* makes one), and every batch that ran left a relation for each of its rows
\* whose two endpoints exist, whatever its other rows were.
C9_EdgesNeverCreateNodes ==
    /\ \A r \in DOMAIN grels : r[1] \in DOMAIN gnodes /\ r[3] \in DOMAIN gnodes
    /\ \A n \in DOMAIN gnodes : gnodes[n].id \in FileIds
    /\ \A k \in DOMAIN batches :
          batches[k].ok =>
            \A p \in DOMAIN batches[k].batch :
               (/\ WithId(batches[k].batch[p].source) # {}
                /\ WithId(batches[k].batch[p].target) # {})
               => RelationBetween(batches[k].batch[p].source, batches[k].type,
                                  batches[k].batch[p].target)

\* A batch that ran held a row with a missing endpoint and a row with both
\* endpoints; the second row's relation exists and no node has the missing id.
C9_Witness ==
    \E k \in DOMAIN batches :
        /\ batches[k].ok
        /\ \E p, q \in DOMAIN batches[k].batch :
              /\ WithId(batches[k].batch[p].target) = {}
              /\ WithId(batches[k].batch[q].source) # {}
              /\ WithId(batches[k].batch[q].target) # {}
              /\ RelationBetween(batches[k].batch[q].source, batches[k].type,
                                 batches[k].batch[q].target)

---------------------------------------------------------------------------
(* Recovery of an interrupted create_db *)

\* The batch statements of the edge loop from offset off of group n on, in
\* the order create_db sends them.
RECURSIVE BatchStatements(_, _, _)
BatchStatements(groups, n, off) ==
    IF n > Len(groups) THEN <<>>
    ELSE IF off >= Len(groups[n].edge_list) THEN BatchStatements(groups, n + 1, 0)
    ELSE << [op |-> "batch",
             type |-> sanitize_metaedge(groups[n].metaedge),
             batch |-> BatchSlice(groups[n].edge_list, off)] >>
         \o BatchStatements(groups, n, off + batch_size)

\* Every statement one create_db call sends to the stores, in order: the
\* document store upserts, the graph node merges, the batches.
Statements ==
    [k \in DOMAIN nodesFile |-> [op |-> "mongo", row |-> nodesFile[k]]]
    \o [k \in DOMAIN nodesFile |-> [op |-> "neo4j", row |-> nodesFile[k]]]
    \o BatchStatements(GroupEdges(edgesFile), 1, 0)

\* What one statement, run by its store, makes of the stores.
RunStatement(stores, st) ==
    CASE st.op = "mongo" ->
            [stores EXCEPT !.mongo = insert_node(stores.mongo, st.row)]
      [] st.op = "neo4j" ->
            [stores EXCEPT !.gnodes = MergeNode(stores.gnodes, st.row.id,
                                                st.row.name, st.row.kind)]
      [] st.op = "batch" ->
            LET after == MergeBatch([gnodes |-> stores.gnodes,
                                     grels |-> stores.grels], st.type, st.batch)
            IN  [stores EXCEPT !.gnodes = after.gnodes, !.grels = after.grels]

\* The stores after the first k of the statements, run one after the other
\* with nothing in between.
RECURSIVE RunStatements(_, _, _)
RunStatements(stores, sts, k) ==
    IF k = 0 THEN stores
    ELSE RunStatement(RunStatements(stores, sts, k - 1), sts[k])

EmptyStores == [mongo |-> <<>>, gnodes |-> <<>>, grels |-> <<>>]

\* The stores as one call of create_db that runs from empty stores to its
\* end leaves them.
UninterruptedLoad == RunStatements(EmptyStores, Statements, Len(Statements))

\* C11: when a create_db call has been interrupted, the stores hold what
\* they held when the call started plus everything the statements run up to
\* the interruption wrote (nothing is rolled back); and when, after an
\* interrupted call, a call on the same files has run to its end, the
\* document store and the graph store are exactly as one uninterrupted call
\* leaves them.
C11_RerunRecovers ==
    /\ pc = "interrupted" =>
          Stores = RunStatements(prev, Statements, cuts[Len(cuts)])
    /\ (pc = "done" /\ cuts # <<>>) => Stores = UninterruptedLoad

\* A call was interrupted after the first of three batches, with both
\* stores holding every node; the next call has run to its end.
C11_Witness ==
    /\ pc = "done"
    /\ runs = 2
    /\ Len(cuts) = 1
    /\ cuts[1] = 2 * Len(nodesFile) + 1
    /\ Len(batches) = 3
    /\ Len(gnodes) = Len(nodesFile)
    /\ DOMAIN grels # {}

---------------------------------------------------------------------------
(* Properties of the queries *)

\* The disease entities with the given id: nodes of the graph store that
\* carry the Disease label.
DiseaseNodes(id) ==
    { n \in DOMAIN gnodes : gnodes[n].id = id /\ Disease \in gnodes[n].labels }

CompoundNodes == { n \in DOMAIN gnodes : Compound \in gnodes[n].labels }
GeneNodes == { n \in DOMAIN gnodes : Gene \in gnodes[n].labels }
AnatomyNodes == { n \in DOMAIN gnodes : Anatomy \in gnodes[n].labels }

Treats(c, d) == <<c, CtD, d>> \in DOMAIN grels

\* C3: query1 returns None exactly when the graph store has no disease
\* entity with the id; for a disease entity it returns a record with the
\* entity's name, and a collection is empty when the entity has no related
\* compound, gene or location of that kind.
C3_NotFoundIffNoDisease ==
    ret.op = "query1" =>
        /\ ret.status = "None" <=> DiseaseNodes(ret.arg) = {}
        /\ ret.status = "ok" =>
              \A d \in DiseaseNodes(ret.arg) :
                 /\ ret.disease_name = gnodes[d].name
                 /\ (\A c \in CompoundNodes :
                        <<c, CtD, d>> \notin DOMAIN grels
                        /\ <<c, CpD, d>> \notin DOMAIN grels)
                    => ret.drug_names = {}
                 /\ (\A x \in GeneNodes :
                        <<d, DdG, x>> \notin DOMAIN grels
                        /\ <<x, DdG, d>> \notin DOMAIN grels)
                    => ret.gene_names = {}
                 /\ (\A l \in AnatomyNodes : <<d, DlA, l>> \notin DOMAIN grels)
                    => ret.locations = {}

\* query1 was asked about a disease that exists and has no relation at all:
\* it returned the name with three empty collections.
C3_Witness ==
    /\ ret.op = "query1"
    /\ ret.status = "ok"
    /\ DiseaseNodes(ret.arg) # {}
    /\ \A r \in DOMAIN grels :
          r[1] \notin DiseaseNodes(ret.arg) /\ r[3] \notin DiseaseNodes(ret.arg)
    /\ ret.disease_name = "d1"
    /\ ret.drug_names = {} /\ ret.gene_names = {} /\ ret.locations = {}

\* C4 (as claimed): query2 on an id that names no disease entity ends in the
\* typed NotFound failure.
C4_MissingDiseaseIsNotFound ==
    (ret.op = "query2" /\ DiseaseNodes(ret.arg) = {}) => ret.status = "NotFound"

\* C5: no compound that query2 reports for a disease treats that disease.
\* ret.value[k] is the name of the compound of the k-th record.
C5_TreatingCompoundExcluded ==
    (ret.op = "query2" /\ ret.status = "ok") =>
        \A d \in DiseaseNodes(ret.arg) :
            \A k \in DOMAIN ret.value :
                /\ ret.value[k] = gnodes[ret.records[k].c].name
                /\ ~Treats(ret.records[k].c, d)

\* A location of d regulates gene x up (down), by a relation in either
\* orientation between the two, and c regulates x down (up).
Reverses(c, x, d) ==
    \E l \in AnatomyNodes :
        /\ <<d, DlA, l>> \in DOMAIN grels
        /\ \/ /\ <<l, AuG, x>> \in DOMAIN grels \/ <<x, AuG, l>> \in DOMAIN grels
              /\ <<c, CdG, x>> \in DOMAIN grels
           \/ /\ <<l, AdG, x>> \in DOMAIN grels \/ <<x, AdG, l>> \in DOMAIN grels
              /\ <<c, CuG, x>> \in DOMAIN grels

\* The same with "l regulates x" read as a relation from l to x.
ReversesDirected(c, x, d) ==
    \E l \in AnatomyNodes :
        /\ <<d, DlA, l>> \in DOMAIN grels
        /\ \/ <<l, AuG, x>> \in DOMAIN grels /\ <<c, CdG, x>> \in DOMAIN grels
           \/ <<l, AdG, x>> \in DOMAIN grels /\ <<c, CuG, x>> \in DOMAIN grels

\* query2 reported a compound although another compound, which treats the
\* disease, reverses one of the disease's genes; the treating one is absent.
C5_Witness ==
    /\ ret.op = "query2"
    /\ ret.status = "ok"
    /\ Len(ret.value) >= 1
    /\ \E d \in DiseaseNodes(ret.arg), c \in CompoundNodes :
          /\ Treats(c, d)
          /\ \E x \in GeneNodes : Reverses(c, x, d)
          /\ \A k \in DOMAIN ret.value : ret.value[k] # gnodes[c].name

\* The number of distinct genes on which compound c qualifies for disease d.
MatchedGeneCount(c, d) == Cardinality({ x \in GeneNodes : Reverses(c, x, d) })

\* C6: each record's gene_count is the number of distinct genes on which its
\* compound qualifies, and a compound that qualifies on strictly more genes
\* than another comes before it in the result.
C6_RankedByDistinctGenes ==
    (ret.op = "query2" /\ ret.status = "ok") =>
        \A d \in DiseaseNodes(ret.arg) :
            /\ \A k \in DOMAIN ret.records :
                  /\ ret.records[k].gene_count = MatchedGeneCount(ret.records[k].c, d)
                  /\ ret.value[k] = gnodes[ret.records[k].c].name
            /\ \A j, k \in DOMAIN ret.records :
                  MatchedGeneCount(ret.records[j].c, d)
                     > MatchedGeneCount(ret.records[k].c, d) => j < k

\* query2 returned two compounds, the first qualifying on two genes and the
\* second on one.
C6_Witness ==
    /\ ret.op = "query2"
    /\ ret.status = "ok"
    /\ Len(ret.records) = 2
    /\ \E d \in DiseaseNodes(ret.arg) :
          /\ MatchedGeneCount(ret.records[1].c, d) = 2
          /\ MatchedGeneCount(ret.records[2].c, d) = 1

\* C8 (as claimed): two executions of query2 in a row on the same disease id
\* (no load in between, so on the same graph) return the same sequence.
C8_SameOrderEveryTime ==
    [][(/\ ret.op = "query2" /\ ret.status = "ok"
        /\ ret'.op = "query2" /\ ret'.status = "ok"
        /\ ret'.arg = ret.arg
        /\ gnodes' = gnodes /\ grels' = grels)
       => ret'.value = ret.value]_vars

\* C10 (as claimed): query2 returns exactly the compounds that do not treat
\* the disease and regulate some gene in the direction opposite to that in
\* which a location of the disease regulates it.
C10_CandidatesDirected ==
    (ret.op = "query2" /\ ret.status = "ok") =>
        \A d \in DiseaseNodes(ret.arg) :
            { ret.records[k].c : k \in DOMAIN ret.records } =
            { c \in CompoundNodes :
                ~Treats(c, d) /\ \E x \in GeneNodes : ReversesDirected(c, x, d) }

\* C10 (amended): the same, the regulation relation between the location and
\* the gene counting in either orientation; the result lists each such
\* compound once, by name.
C10_Candidates ==
    (ret.op = "query2" /\ ret.status = "ok") =>
        \A d \in DiseaseNodes(ret.arg) :
            LET candidates == { c \in CompoundNodes :
                                  ~Treats(c, d) /\ \E x \in GeneNodes : Reverses(c, x, d) }
            IN  /\ { ret.records[k].c : k \in DOMAIN ret.records } = candidates
                /\ Len(ret.records) = Cardinality(candidates)
                /\ \A k \in DOMAIN ret.value :
                      ret.value[k] = gnodes[ret.records[k].c].name

\* query2 returned a compound that is opposite to only one of the two
\* directions in which two locations of the disease regulate the same gene.
C10_Witness ==
    /\ ret.op = "query2"
    /\ ret.status = "ok"
    /\ \E d \in DiseaseNodes(ret.arg), x \in GeneNodes, l1, l2 \in AnatomyNodes :
          /\ <<d, DlA, l1>> \in DOMAIN grels /\ <<d, DlA, l2>> \in DOMAIN grels
          /\ <<l1, AuG, x>> \in DOMAIN grels /\ <<l2, AdG, x>> \in DOMAIN grels
          /\ \E k \in DOMAIN ret.records :
                /\ <<ret.records[k].c, CuG, x>> \in DOMAIN grels
                /\ <<ret.records[k].c, CdG, x>> \notin DOMAIN grels
                /\ ret.records[k].gene_count = 1

====
